---- MODULE Spec2Model ----
(***************************************************************************)
(* Model of share/ipld/nmt.go: the IPLD adapter of Namespaced Merkle Tree  *)
(* nodes.  Byte buffers are sequences of 0..255, identifiers are the byte  *)
(* strings go-cid builds, and every exported operation is one action that  *)
(* records its outcome (returned values, error value or panic) in result.  *)
(***************************************************************************)
EXTENDS Integers, Sequences, FiniteSets, TLC

VARIABLES heap,    \* the byte buffers owned by blocks, by address
          nodes,   \* the node adapters built so far
          issued,  \* the last identifier CidFromNamespacedSha256 produced
          dah,     \* the data availability header handed to Translate
          result   \* the outcome of the last operation

vars == <<heap, nodes, issued, dah, result>>

----------------------------------------------------------------------------
(* Program constants *)

nmtCodec == 30464                 \* 0x7700
sha256Namespace8Flagged == 30465  \* 0x7701
Sha256Size == 32                  \* crypto/sha256.Size
NamespaceSize == 8                \* appconsts.NamespaceSize
ShareSize == 512                  \* appconsts.ShareSize
nmtHashSize == 2 * NamespaceSize + Sha256Size
cidPrefixSize == 4

(* Bounds of the model *)

MaxFill == 1      \* input buffers are filled with bytes 0..MaxFill
MaxNodes == 2     \* adapters kept at once
MaxSquare == 2    \* rows and columns of the header

----------------------------------------------------------------------------
(* Byte buffers and Go slicing *)

\* a buffer of n bytes: a in its first nmtHashSize bytes, b in the rest
Pattern(n, a, b) == [i \in 1..n |-> IF i <= nmtHashSize THEN a ELSE b]

\* s[lo:]  (Go panics when lo > len(s))
SliceFromOK(s, lo) == lo <= Len(s)
SliceFrom(s, lo) == SubSeq(s, lo + 1, Len(s))

\* s[:hi]  (Go panics when hi > cap(s); buffers here have cap = len)
SliceToOK(s, hi) == hi <= Len(s)
SliceTo(s, hi) == SubSeq(s, 1, hi)

\* binary.PutUvarint: 7 bits per byte, least significant group first
RECURSIVE Uvarint(_)
Uvarint(x) == IF x < 128 THEN <<x>>
              ELSE <<(x % 128) + 128>> \o Uvarint(x \div 128)

\* the number of bytes of the uvarint that starts s (0 when s has none)
RECURSIVE UvarintLen(_)
UvarintLen(s) == IF Len(s) = 0 THEN 0
                 ELSE IF s[1] < 128 THEN 1
                 ELSE 1 + UvarintLen(Tail(s))

----------------------------------------------------------------------------
(* Identifiers *)

Undef == <<>>     \* cid.Cid{} and cid.Undef: the empty string

\* mh.Encode: function code, digest length, digest
mhEncode(buf, code) == Uvarint(code) \o Uvarint(Len(buf)) \o buf

\* cid.NewCidV1: version, codec, multihash
NewCidV1(codec, mhash) == Uvarint(1) \o Uvarint(codec) \o mhash

\* Cid.Hash: what follows the version and the codec
CidHash(c) ==
    LET afterVersion == SliceFrom(c, UvarintLen(c))
    IN  SliceFrom(afterVersion, UvarintLen(afterVersion))

\* outcomes of a call: returned values, an error value, or a panic
ErrWrongSize == "ipld: wrong sized data carried in block"
ErrInnerPath == "invalid path for inner node"
ErrLeafPath == "invalid path for leaf node"
ErrHashLength == "invalid namespaced hash length"
ErrNotALink == "was not a link"

CidFromNamespacedSha256_noLengthCheck(namespacedHash) ==
    [cid |-> NewCidV1(nmtCodec, mhEncode(namespacedHash, sha256Namespace8Flagged)),
     err |-> ""]

CidFromNamespacedSha256(namespacedHash) ==
    IF Len(namespacedHash) # nmtHashSize
    THEN [cid |-> Undef, err |-> ErrHashLength]
    ELSE [cid |-> NewCidV1(nmtCodec, mhEncode(namespacedHash, sha256Namespace8Flagged)),
          err |-> ""]

MustCidFromNamespacedSha256(hash) ==
    LET r == CidFromNamespacedSha256(hash)
    IN  IF r.err # "" THEN [cid |-> Undef, panic |-> TRUE]
        ELSE [cid |-> r.cid, panic |-> FALSE]

NamespacedSha256FromCID_wholeCid(c) == SliceFrom(c, cidPrefixSize)

NamespacedSha256FromCID(c) == SliceFrom(CidHash(c), cidPrefixSize)

----------------------------------------------------------------------------
(* Outcomes *)

NoResult == [op |-> "none", status |-> "ok", err |-> "", node |-> 0,
             path |-> <<>>, in |-> <<>>, cid |-> Undef, rest |-> <<>>,
             links |-> <<>>, tree |-> <<>>, out |-> <<>>,
             row |-> 0, col |-> 0, coin |-> 0, idx |-> 0, type |-> "nil"]

Panic == [status |-> "panic", err |-> "", cid |-> Undef, rest |-> <<>>]
Fail(e) == [status |-> "error", err |-> e, cid |-> Undef, rest |-> <<>>]
Link(c, rest) == [status |-> "ok", err |-> "", cid |-> c, rest |-> rest]

----------------------------------------------------------------------------
(* Block classification *)

decodeBlock_singleHash(data) ==
    LET innerNodeSize == nmtHashSize
        leafNodeSize == NamespaceSize + ShareSize
    IN  IF Len(data) = innerNodeSize THEN [type |-> "nmtNode", err |-> ""]
        ELSE IF Len(data) = leafNodeSize THEN [type |-> "nmtLeafNode", err |-> ""]
        ELSE [type |-> "nil", err |-> ErrWrongSize]

decodeBlock(data) ==
    LET innerNodeSize == nmtHashSize * 2
        leafNodeSize == NamespaceSize + ShareSize
    IN  IF Len(data) = innerNodeSize THEN [type |-> "nmtNode", err |-> ""]
        ELSE IF Len(data) = leafNodeSize THEN [type |-> "nmtLeafNode", err |-> ""]
        ELSE [type |-> "nil", err |-> ErrWrongSize]

----------------------------------------------------------------------------
(* nmtNode: the methods take the bytes RawData() returns *)

leftOK(data) == SliceToOK(data, nmtHashSize)
left(data) == SliceTo(data, nmtHashSize)

rightOK(data) == SliceFromOK(data, nmtHashSize)
right(data) == SliceFrom(data, nmtHashSize)

nmtNode_Resolve_rightIsLeft(data, path) ==
    IF Len(path) = 0 THEN Panic
    ELSE IF path[1] = "0" \/ path[1] = "1" THEN
        IF ~leftOK(data) THEN Panic
        ELSE LET r == CidFromNamespacedSha256(left(data))
             IN  IF r.err # "" THEN Fail(r.err) ELSE Link(r.cid, Tail(path))
    ELSE Fail(ErrInnerPath)

nmtNode_Resolve(data, path) ==
    IF Len(path) = 0 THEN Panic                 \* path[0]: index out of range
    ELSE IF path[1] = "0" THEN
        IF ~leftOK(data) THEN Panic
        ELSE LET r == CidFromNamespacedSha256(left(data))
             IN  IF r.err # "" THEN Fail(r.err) ELSE Link(r.cid, Tail(path))
    ELSE IF path[1] = "1" THEN
        IF ~rightOK(data) THEN Panic
        ELSE LET r == CidFromNamespacedSha256(right(data))
             IN  IF r.err # "" THEN Fail(r.err) ELSE Link(r.cid, Tail(path))
    ELSE Fail(ErrInnerPath)

\* the receiver is an nmtNode, so n.Resolve is nmtNode's Resolve; what it
\* returns without error is always a *ipld.Link
nmtNode_ResolveLink(data, path) == nmtNode_Resolve(data, path)

nmtNode_Tree(path, depth) ==
    IF path # "" \/ depth # -1 THEN [panic |-> TRUE, tree |-> <<>>]
    ELSE [panic |-> FALSE, tree |-> <<"0", "1">>]

nmtNode_Links(data) ==
    IF ~leftOK(data) \/ ~rightOK(data) THEN [panic |-> TRUE, links |-> <<>>]
    ELSE LET leftCid == MustCidFromNamespacedSha256(left(data))
             rightCid == MustCidFromNamespacedSha256(right(data))
         IN  IF leftCid.panic \/ rightCid.panic THEN [panic |-> TRUE, links |-> <<>>]
             ELSE [panic |-> FALSE, links |-> <<leftCid.cid, rightCid.cid>>]

\* blocks.NewBlockWithCid verifies the hash only in debug builds, so the
\* panic of newNMTNode is not taken
newNMTNode(id, buf, from) == [type |-> "nmtNode", cid |-> id, buf |-> buf, parent |-> from]

(* nmtLeafNode embeds nmtNode and overrides Resolve, Tree and Links *)

nmtLeafNode_Resolve(path) == Fail(ErrLeafPath)

nmtLeafNode_Tree(path, depth) == [panic |-> FALSE, tree |-> <<>>]

nmtLeafNode_Links == [panic |-> FALSE, links |-> <<>>]

(* Method sets: what a call on the adapter nodes[i] runs *)

IsLeaf(i) == nodes[i].type = "nmtLeafNode"
RawData(i) == heap[nodes[i].buf]

ResolveOf_noOverride(i, path) == nmtNode_Resolve(RawData(i), path)

ResolveOf(i, path) ==
    IF IsLeaf(i) THEN nmtLeafNode_Resolve(path) ELSE nmtNode_Resolve(RawData(i), path)

\* ResolveLink is declared on nmtNode only: nmtLeafNode gets it by promotion
ResolveLinkOf(i, path) == nmtNode_ResolveLink(RawData(i), path)

TreeOf(i, path, depth) ==
    IF IsLeaf(i) THEN nmtLeafNode_Tree(path, depth) ELSE nmtNode_Tree(path, depth)

LinksOf(i) == IF IsLeaf(i) THEN nmtLeafNode_Links ELSE nmtNode_Links(RawData(i))

----------------------------------------------------------------------------
(* Inputs *)

Fill == 0..MaxFill
BlockLens == {0, 50, nmtHashSize, 2 * nmtHashSize - 1, 2 * nmtHashSize,
              2 * nmtHashSize + 1, NamespaceSize + ShareSize - 1,
              NamespaceSize + ShareSize, NamespaceSize + ShareSize + 1}
HashLens == {0, 1, nmtHashSize - 1, nmtHashSize, nmtHashSize + 1, 2 * nmtHashSize}
Paths == {<<>>, <<"0">>, <<"1">>, <<"2">>, <<"1", "0", "2">>}
TreeQueries == {<<"", -1>>, <<"0", -1>>, <<"", 0>>}
WritePositions == {1}
WriteValues == {255}

----------------------------------------------------------------------------
(* Actions on nodes *)

\* decodeBlock on a fetched block of the given bytes and identifier
DecodeBlock(data, id) ==
    LET r == decodeBlock(data)
    IN  /\ r.err # "" \/ Len(nodes) < MaxNodes
        /\ IF r.err # ""
           THEN /\ UNCHANGED <<heap, nodes>>
                /\ result' = [NoResult EXCEPT !.op = "decodeBlock", !.in = data,
                                              !.status = "error", !.err = r.err]
           ELSE /\ heap' = Append(heap, data)
                /\ nodes' = Append(nodes, [type |-> r.type, cid |-> id,
                                           buf |-> Len(heap) + 1, parent |-> 0])
                /\ result' = [NoResult EXCEPT !.op = "decodeBlock", !.in = data,
                                              !.node = Len(nodes) + 1, !.type = r.type]
        /\ UNCHANGED <<issued, dah>>

Resolve(i, path) ==
    LET r == ResolveOf(i, path)
    IN  /\ result' = [NoResult EXCEPT !.op = "Resolve", !.node = i, !.path = path,
                                      !.status = r.status, !.err = r.err,
                                      !.cid = r.cid, !.rest = r.rest]
        /\ UNCHANGED <<heap, nodes, issued, dah>>

ResolveLink(i, path) ==
    LET r == ResolveLinkOf(i, path)
    IN  /\ result' = [NoResult EXCEPT !.op = "ResolveLink", !.node = i, !.path = path,
                                      !.status = r.status, !.err = r.err,
                                      !.cid = r.cid, !.rest = r.rest]
        /\ UNCHANGED <<heap, nodes, issued, dah>>

Tree(i, path, depth) ==
    LET r == TreeOf(i, path, depth)
    IN  /\ result' = [NoResult EXCEPT !.op = "Tree", !.node = i,
                                      !.status = IF r.panic THEN "panic" ELSE "ok",
                                      !.tree = r.tree]
        /\ UNCHANGED <<heap, nodes, issued, dah>>

Links(i) ==
    LET r == LinksOf(i)
    IN  /\ result' = [NoResult EXCEPT !.op = "Links", !.node = i,
                                      !.status = IF r.panic THEN "panic" ELSE "ok",
                                      !.links = r.links]
        /\ UNCHANGED <<heap, nodes, issued, dah>>

Copy_aliased(i) ==
    /\ Len(nodes) < MaxNodes
    /\ heap' = heap
    /\ nodes' = Append(nodes, newNMTNode(nodes[i].cid, nodes[i].buf, i))
    /\ result' = [NoResult EXCEPT !.op = "Copy", !.node = Len(nodes) + 1]
    /\ UNCHANGED <<issued, dah>>

\* Copy is declared on nmtNode only: d is a fresh buffer with the bytes of
\* RawData(), and the result is what newNMTNode builds
Copy(i) ==
    /\ Len(nodes) < MaxNodes
    /\ heap' = Append(heap, RawData(i))
    /\ nodes' = Append(nodes, newNMTNode(nodes[i].cid, Len(heap) + 1, i))
    /\ result' = [NoResult EXCEPT !.op = "Copy", !.node = Len(nodes) + 1]
    /\ UNCHANGED <<issued, dah>>

\* a caller writes one byte through the slice RawData() hands out
WriteRawData(i, pos, v) ==
    /\ pos <= Len(RawData(i))
    /\ RawData(i)[pos] # v
    /\ heap' = [heap EXCEPT ![nodes[i].buf][pos] = v]
    /\ result' = [NoResult EXCEPT !.op = "write", !.node = i]
    /\ UNCHANGED <<nodes, issued, dah>>

----------------------------------------------------------------------------
(* Actions of the identifier codec *)

NotIssued == [hash |-> <<>>, cid |-> Undef]

Encode(h) ==
    LET r == CidFromNamespacedSha256(h)
    IN  /\ result' = [NoResult EXCEPT !.op = "CidFromNamespacedSha256", !.in = h,
                                      !.status = IF r.err # "" THEN "error" ELSE "ok",
                                      !.err = r.err, !.cid = r.cid]
        /\ issued' = IF r.err # "" THEN issued ELSE [hash |-> h, cid |-> r.cid]
        /\ UNCHANGED <<heap, nodes, dah>>

MustEncode(h) ==
    LET r == MustCidFromNamespacedSha256(h)
    IN  /\ result' = [NoResult EXCEPT !.op = "MustCidFromNamespacedSha256", !.in = h,
                                      !.status = IF r.panic THEN "panic" ELSE "ok",
                                      !.cid = r.cid]
        /\ issued' = IF r.panic THEN issued ELSE [hash |-> h, cid |-> r.cid]
        /\ UNCHANGED <<heap, nodes, dah>>

\* NamespacedSha256FromCID on the identifier issued last
Decode ==
    /\ issued.cid # Undef
    /\ result' = [NoResult EXCEPT !.op = "NamespacedSha256FromCID", !.in = issued.hash,
                                  !.cid = issued.cid,
                                  !.out = NamespacedSha256FromCID(issued.cid)]
    /\ UNCHANGED <<heap, nodes, issued, dah>>

----------------------------------------------------------------------------
(* Sampling *)

Translate_sameAxis(header, row, col, coin) ==
    IF coin = 0
    THEN LET c == MustCidFromNamespacedSha256(header.ColumnRoots[col + 1])
         IN  [cid |-> c.cid, idx |-> col, panic |-> c.panic]
    ELSE LET c == MustCidFromNamespacedSha256(header.RowsRoots[row + 1])
         IN  [cid |-> c.cid, idx |-> row, panic |-> c.panic]

\* coin is what rand.Intn(2) returned; row and col count from 0 as in Go
Translate(header, row, col, coin) ==
    IF coin = 0
    THEN LET c == MustCidFromNamespacedSha256(header.ColumnRoots[col + 1])
         IN  [cid |-> c.cid, idx |-> row, panic |-> c.panic]
    ELSE LET c == MustCidFromNamespacedSha256(header.RowsRoots[row + 1])
         IN  [cid |-> c.cid, idx |-> col, panic |-> c.panic]

RootHash(f) == Pattern(nmtHashSize, f, f)
Roots == {RootHash(f) : f \in Fill}
Headers == [RowsRoots : [1..MaxSquare -> Roots], ColumnRoots : [1..MaxSquare -> Roots]]
EmptyHeader == [RowsRoots |-> <<>>, ColumnRoots |-> <<>>]

Sample(row, col, coin) ==
    LET r == Translate(dah, row, col, coin)
    IN  /\ result' = [NoResult EXCEPT !.op = "Translate", !.row = row, !.col = col,
                                      !.coin = coin, !.cid = r.cid, !.idx = r.idx,
                                      !.status = IF r.panic THEN "panic" ELSE "ok"]
        /\ UNCHANGED <<heap, nodes, issued, dah>>

----------------------------------------------------------------------------
(* Specifications *)

\* the blocks a fetch hands to decodeBlock
BlockData == {Pattern(n, a, a) : n \in BlockLens, a \in Fill}
NodeBlocks == {Pattern(n, 0, 1) : n \in {50, 2 * nmtHashSize, NamespaceSize + ShareSize}}
BlockCids == {CidFromNamespacedSha256(RootHash(0)).cid}
Hashes == {[i \in 1..n |-> IF i % 2 = 1 THEN a ELSE b] : n \in HashLens, a \in Fill, b \in Fill}

InitNode ==
    /\ heap = <<>>
    /\ nodes = <<>>
    /\ issued = NotIssued
    /\ dah = EmptyHeader
    /\ result = NoResult

NextNode ==
    \/ \E data \in NodeBlocks, id \in BlockCids : DecodeBlock(data, id)
    \/ \E i \in 1..Len(nodes), path \in Paths : Resolve(i, path)
    \/ \E i \in 1..Len(nodes), path \in Paths : ResolveLink(i, path)
    \/ \E i \in 1..Len(nodes), q \in TreeQueries : Tree(i, q[1], q[2])
    \/ \E i \in 1..Len(nodes) : Links(i)
    \/ \E i \in 1..Len(nodes) : Copy(i)
    \/ \E i \in 1..Len(nodes), pos \in WritePositions, v \in WriteValues : WriteRawData(i, pos, v)

SpecNode == InitNode /\ [][NextNode]_vars

InitDecode == InitNode

NextDecode == \E data \in BlockData, id \in BlockCids : DecodeBlock(data, id)

SpecDecode == InitDecode /\ [][NextDecode]_vars

InitCodec == InitNode

NextCodec ==
    \/ \E h \in Hashes : Encode(h)
    \/ \E h \in Hashes : MustEncode(h)
    \/ Decode

SpecCodec == InitCodec /\ [][NextCodec]_vars

InitTranslate ==
    /\ heap = <<>>
    /\ nodes = <<>>
    /\ issued = NotIssued
    /\ dah \in Headers
    /\ result = NoResult

NextTranslate ==
    \E row \in 0..(MaxSquare - 1), col \in 0..(MaxSquare - 1), coin \in {0, 1} :
        Sample(row, col, coin)

SpecTranslate == InitTranslate /\ [][NextTranslate]_vars

----------------------------------------------------------------------------
(* Properties *)

InnerNodeSize == 2 * nmtHashSize
LeafNodeSize == NamespaceSize + ShareSize
InvalidPath == {ErrInnerPath, ErrLeafPath}
Encoded(h) == NewCidV1(nmtCodec, Uvarint(sha256Namespace8Flagged) \o Uvarint(Len(h)) \o h)

\* C1: decodeBlock succeeds exactly on the two block sizes: an inner node
\* for 2*nmtHashSize bytes, a leaf node for NamespaceSize+ShareSize bytes,
\* and the wrong-size error without a node for every other length; the two
\* sizes differ.
C1_DecodeBySize ==
    result.op = "decodeBlock" =>
        LET n == Len(result.in)
        IN  /\ InnerNodeSize # LeafNodeSize
            /\ (result.status = "ok") <=> (n \in {InnerNodeSize, LeafNodeSize})
            /\ (result.type = "nmtNode") <=> (n = InnerNodeSize)
            /\ (result.type = "nmtLeafNode") <=> (n = LeafNodeSize)
            /\ n \notin {InnerNodeSize, LeafNodeSize} =>
                   /\ result.status = "error"
                   /\ result.err = ErrWrongSize
                   /\ result.node = 0
            /\ result.status = "ok" =>
                   /\ nodes[result.node].type = result.type
                   /\ RawData(result.node) = result.in

C1_Witness ==
    /\ result.op = "decodeBlock"
    /\ result.status = "error"
    /\ Len(result.in) = InnerNodeSize + 1
    /\ \E i, j \in 1..Len(nodes) :
           nodes[i].type = "nmtNode" /\ nodes[j].type = "nmtLeafNode"

\* C2: decoding the identifier built from a hash of nmtHashSize bytes gives
\* back that hash, byte for byte.
C2_RoundTrip ==
    result.op = "NamespacedSha256FromCID" =>
        /\ Len(result.in) = nmtHashSize
        /\ Len(result.out) = nmtHashSize
        /\ result.out = result.in

C2_Witness ==
    /\ result.op = "NamespacedSha256FromCID"
    /\ result.out = result.in
    /\ \E i, j \in 1..Len(result.in) : result.in[i] # result.in[j]

\* C3: on a hash whose length is not nmtHashSize, CidFromNamespacedSha256
\* returns the hash-length error with the undefined identifier and
\* MustCidFromNamespacedSha256 panics; on a hash of nmtHashSize bytes neither
\* fails and both return the same identifier.
C3_LengthChecked ==
    /\ result.op = "CidFromNamespacedSha256" =>
           IF Len(result.in) # nmtHashSize
           THEN result.status = "error" /\ result.err = ErrHashLength /\ result.cid = Undef
           ELSE result.status = "ok" /\ result.cid = Encoded(result.in)
    /\ result.op = "MustCidFromNamespacedSha256" =>
           IF Len(result.in) # nmtHashSize
           THEN result.status = "panic"
           ELSE result.status = "ok" /\ result.cid = Encoded(result.in)

C3_Witness ==
    /\ result.op = "MustCidFromNamespacedSha256"
    /\ result.status = "panic"
    /\ Len(result.in) = nmtHashSize - 1
    /\ issued.cid # Undef

\* C4: on an inner node over left || right, Resolve of a non-empty path
\* returns the link of the left hash for "0" and of the right hash for "1",
\* with the rest of the path, and the invalid-path error with neither link
\* nor rest for any other first segment.
C4_InnerResolve ==
    (/\ result.op = "Resolve"
     /\ result.path # <<>>
     /\ nodes[result.node].type = "nmtNode"
     /\ Len(RawData(result.node)) = InnerNodeSize) =>
        LET data == RawData(result.node)
            l == SubSeq(data, 1, nmtHashSize)
            r == SubSeq(data, nmtHashSize + 1, InnerNodeSize)
        IN  IF result.path[1] = "0"
            THEN result.status = "ok" /\ result.cid = Encoded(l)
                                      /\ result.rest = Tail(result.path)
            ELSE IF result.path[1] = "1"
            THEN result.status = "ok" /\ result.cid = Encoded(r)
                                      /\ result.rest = Tail(result.path)
            ELSE /\ result.status = "error"
                 /\ result.err \in InvalidPath
                 /\ result.cid = Undef
                 /\ result.rest = <<>>

C4_Witness ==
    /\ result.op = "Resolve"
    /\ result.path = <<"1", "0", "2">>
    /\ nodes[result.node].type = "nmtNode"
    /\ Len(RawData(result.node)) = InnerNodeSize
    /\ result.rest = <<"0", "2">>
    /\ result.cid = Encoded(SubSeq(RawData(result.node), nmtHashSize + 1, InnerNodeSize))
    /\ result.cid # Encoded(SubSeq(RawData(result.node), 1, nmtHashSize))

\* C5: on an nmtLeafNode, Resolve of every non-empty path fails with the
\* invalid-path error and returns neither value nor rest, and Links is empty.
C5_LeafResolveFails ==
    (result.node # 0 /\ result.op \in {"Resolve", "Links"}) =>
        (nodes[result.node].type = "nmtLeafNode" =>
            /\ (result.op = "Resolve" /\ result.path # <<>>) =>
                   /\ result.status = "error"
                   /\ result.err \in InvalidPath
                   /\ result.cid = Undef
                   /\ result.rest = <<>>
            /\ result.op = "Links" => result.status = "ok" /\ result.links = <<>>)

C5_Witness ==
    /\ result.op = "Resolve"
    /\ nodes[result.node].type = "nmtLeafNode"
    /\ result.path = <<"0">>
    /\ result.status = "error"

\* C6: Copy yields an adapter with the identifier of the original and a
\* buffer of equal contents at a different address, so that a write through
\* either of the two leaves the other's bytes and both identifiers as they
\* were.
C6_CopyIndependent ==
    [][/\ Len(nodes') > Len(nodes) /\ nodes'[Len(nodes')].parent # 0 =>
              LET c == nodes'[Len(nodes')]
                  p == nodes[c.parent]
              IN  /\ c.cid = p.cid
                  /\ c.buf # p.buf
                  /\ heap'[c.buf] = heap[p.buf]
                  /\ heap'[p.buf] = heap[p.buf]
       /\ \A i \in 1..Len(nodes) : nodes[i].parent # 0 =>
              LET c == nodes[i]
                  p == nodes[c.parent]
              IN  /\ nodes'[i].cid = c.cid /\ nodes'[c.parent].cid = p.cid
                  /\ heap'[c.buf] # heap[c.buf] => heap'[p.buf] = heap[p.buf]
                  /\ heap'[p.buf] # heap[p.buf] => heap'[c.buf] = heap[c.buf]
      ]_vars

C6_Witness ==
    \E i \in 1..Len(nodes) :
        /\ nodes[i].parent # 0
        /\ result.op = "write"
        /\ result.node = i
        /\ RawData(i) # RawData(nodes[i].parent)
        /\ nodes[i].cid = nodes[nodes[i].parent].cid

\* C7: Translate returns the identifier of the column root at col with the
\* row index, or the identifier of the row root at row with the column
\* index, according to the coin, and leaves the header as it was.
C7_TranslateOutcome ==
    result.op = "Translate" =>
        /\ result.status = "ok"
        /\ \/ /\ result.coin = 0
              /\ result.cid = Encoded(dah.ColumnRoots[result.col + 1])
              /\ result.idx = result.row
           \/ /\ result.coin # 0
              /\ result.cid = Encoded(dah.RowsRoots[result.row + 1])
              /\ result.idx = result.col

C7_HeaderUnchanged == [][dah' = dah]_vars

C7_Translate == []C7_TranslateOutcome /\ C7_HeaderUnchanged

C7_Witness ==
    /\ result.op = "Translate"
    /\ result.coin = 0
    /\ result.row # result.col
    /\ dah.ColumnRoots[result.col + 1] # dah.RowsRoots[result.row + 1]
    /\ dah.ColumnRoots[result.col + 1] # dah.ColumnRoots[result.row + 1]
    /\ result.idx = result.row

\* C8: on a leaf node, ResolveLink of every non-empty path returns the
\* invalid-path error and no link.
C8_LeafResolveLinkFails ==
    (/\ result.op = "ResolveLink"
     /\ result.path # <<>>
     /\ nodes[result.node].type = "nmtLeafNode") =>
        /\ result.status = "error"
        /\ result.err \in InvalidPath
        /\ result.cid = Undef

\* C9: a node obtained by Copy calls from a leaf node behaves as a leaf
\* (Links and Tree return the empty sequence, Resolve fails with the
\* invalid-path error), and one obtained from an inner node has the links
\* of the original while their bytes are equal.
RECURSIVE Origin(_)
Origin(i) == IF nodes[i].parent = 0 THEN i ELSE Origin(nodes[i].parent)

C9_CopyKeepsVariant ==
    (result.node # 0 /\ result.op \in {"Links", "Tree", "Resolve"}) =>
        LET i == result.node
            o == Origin(i)
        IN  IF nodes[o].type = "nmtLeafNode"
            THEN /\ result.op = "Links" => result.status = "ok" /\ result.links = <<>>
                 /\ result.op = "Tree" => result.status = "ok" /\ result.tree = <<>>
                 /\ (result.op = "Resolve" /\ result.path # <<>>) =>
                        result.status = "error" /\ result.err \in InvalidPath
            ELSE (result.op = "Links" /\ RawData(i) = RawData(o)) =>
                     /\ result.status = "ok"
                     /\ result.links = <<Encoded(SubSeq(RawData(o), 1, nmtHashSize)),
                                         Encoded(SubSeq(RawData(o), nmtHashSize + 1,
                                                        InnerNodeSize))>>

\* C10: Resolve and ResolveLink return a link with the rest of the path or
\* an error value for every path, the empty one included; none panics.
C10_ResolveTotal ==
    result.op \in {"Resolve", "ResolveLink"} =>
        /\ result.status \in {"ok", "error"}
        /\ result.status = "ok" => result.cid # Undef
        /\ result.status = "error" => result.err # ""

====
